---- MODULE Spec2Model ----
(***************************************************************************)
(* lofitui: the menu state machine of main.go (model.Update), the preset   *)
(* configuration of the config file (loadConfig / saveConfig /             *)
(* getDefaultConfig) and the resolver / player bridge (extractStreamURL,   *)
(* playMPV).                                                               *)
(*                                                                         *)
(* A string is a sequence of characters.  The twenty literals of the       *)
(* default table are kept as one-character strings whose only character    *)
(* is the literal itself: none of them starts or ends with a blank, which  *)
(* is all that strings.TrimSpace looks at.                                 *)
(*                                                                         *)
(* The list widget (bubbles list.Model) is modelled on one page: its items *)
(* and its cursor.  SetItems replaces the items and leaves the cursor      *)
(* where it is; the cursor is brought back into range by the next message  *)
(* handed to list.Update.  Rendering-only fields (width, height, ready,    *)
(* loadingTitle, spinner frame) are not modelled.                          *)
(***************************************************************************)
EXTENDS Integers, Sequences, FiniteSets, TLC

VARIABLES
    state,          \* m.state
    config,         \* m.config.Presets
    listItems,      \* m.list items
    listIndex,      \* m.list.Index()
    disk,           \* the config file
    selectedIndex,  \* m.selectedIndex
    nameInput,      \* m.nameInput.Value()
    urlInput,       \* m.urlInput.Value()
    focusedInput,   \* m.focusedInput
    textInput,      \* m.textInput.Value()
    proc,           \* the subprocess in flight: resolver, player or none
    quitting,       \* m.quitting: tea.Quit was returned
    last,           \* history: the branch of Update that handled the last message
    wrote,          \* history: saveConfig was called in that branch
    lastSave,       \* history: outcome of the most recent saveConfig call
    nkeys           \* history: number of terminal messages handled so far

vars == <<state, config, listItems, listIndex, disk, selectedIndex, nameInput,
          urlInput, focusedInput, textInput, proc, quitting, last, wrote,
          lastSave, nkeys>>

(* ------------------------------ bounds ------------------------------- *)

\* messages of the terminal (keys, window sizes) in one run
MaxKeys == 8

(* ------------------------------ strings ------------------------------ *)

Str(c) == <<c>>

TypedChars == {" ", "a"}

RECURSIVE TrimLeft(_)
TrimLeft(s) ==
    IF s # <<>> /\ Head(s) = " " THEN TrimLeft(Tail(s)) ELSE s

RECURSIVE TrimRight(_)
TrimRight(s) ==
    IF s # <<>> /\ s[Len(s)] = " " THEN TrimRight(SubSeq(s, 1, Len(s) - 1)) ELSE s

TrimSpace(s) == TrimRight(TrimLeft(s))

DropLast(s) == IF s = <<>> THEN <<>> ELSE SubSeq(s, 1, Len(s) - 1)

(* ------------------------------ config ------------------------------- *)

Preset(n, u) == [name |-> n, url |-> u]

\* mutant of getDefaultConfig: the first two entries change places
getDefaultConfigSwapped ==
    << Preset(Str("Lofi Girl - Sleep"), Str("https://www.youtube.com/watch?v=DWcJFNfaw9c")),
       Preset(Str("Lofi Girl - Study"), Str("https://www.youtube.com/watch?v=jfKfPfyJRdk")),
       Preset(Str("Lofi Girl - Jazz"), Str("https://www.youtube.com/watch?v=HuFYqnbVbzY")),
       Preset(Str("Synthwave Radio"), Str("https://www.youtube.com/watch?v=4xDzrJKXOOY")),
       Preset(Str("Chillhop Music"), Str("https://www.youtube.com/watch?v=5yx6BWlEVcY")),
       Preset(Str("The Bootleg Boy"), Str("https://www.youtube.com/watch?v=FWjZ0x2M8og")),
       Preset(Str("Dreamhop Music"), Str("https://www.youtube.com/live/D5bqo8lcny4")),
       Preset(Str("Lofi Geek"), Str("https://www.youtube.com/watch?v=1tJ8sc8I4z0")),
       Preset(Str("STEEZYASFUCK"), Str("https://www.youtube.com/watch?v=S_MOd40zlYU")),
       Preset(Str("Homework Radio"), Str("https://www.youtube.com/watch?v=lTRiuFIWV54")) >>

getDefaultConfig ==
    << Preset(Str("Lofi Girl - Study"), Str("https://www.youtube.com/watch?v=jfKfPfyJRdk")),
       Preset(Str("Lofi Girl - Sleep"), Str("https://www.youtube.com/watch?v=DWcJFNfaw9c")),
       Preset(Str("Lofi Girl - Jazz"), Str("https://www.youtube.com/watch?v=HuFYqnbVbzY")),
       Preset(Str("Synthwave Radio"), Str("https://www.youtube.com/watch?v=4xDzrJKXOOY")),
       Preset(Str("Chillhop Music"), Str("https://www.youtube.com/watch?v=5yx6BWlEVcY")),
       Preset(Str("The Bootleg Boy"), Str("https://www.youtube.com/watch?v=FWjZ0x2M8og")),
       Preset(Str("Dreamhop Music"), Str("https://www.youtube.com/live/D5bqo8lcny4")),
       Preset(Str("Lofi Geek"), Str("https://www.youtube.com/watch?v=1tJ8sc8I4z0")),
       Preset(Str("STEEZYASFUCK"), Str("https://www.youtube.com/watch?v=S_MOd40zlYU")),
       Preset(Str("Homework Radio"), Str("https://www.youtube.com/watch?v=lTRiuFIWV54")) >>

\* The config file: absent, unreadable or malformed, or holding presets.
Absent == [kind |-> "absent", presets |-> <<>>]
Malformed == [kind |-> "malformed", presets |-> <<>>]
File(p) == [kind |-> "file", presets |-> p]

\* mutant of saveConfig: reports success without writing the file
saveConfigNoWrite(d, c, ok, partial) == d

\* saveConfig: MkdirAll, MarshalIndent, WriteFile.  ok = FALSE is a failing
\* call: the file is left as it was, or cut short by a partial write.
saveConfig(d, c, ok, partial) ==
    IF ok THEN File(c)
    ELSE IF partial THEN Malformed
    ELSE d

SaveResult(ok) == IF ok THEN "ok" ELSE "err"

\* mutant of loadConfig: a file that does not exist is an error
loadConfigAbsentFails(d) ==
    IF d.kind = "absent" THEN [err |-> TRUE, presets |-> <<>>]
    ELSE IF d.kind = "malformed" THEN [err |-> TRUE, presets |-> <<>>]
    ELSE [err |-> FALSE, presets |-> d.presets]

\* loadConfig: defaults when the file does not exist, an error when it cannot
\* be read or parsed, its presets otherwise.
loadConfig(d) ==
    IF d.kind = "absent" THEN [err |-> FALSE, presets |-> getDefaultConfig]
    ELSE IF d.kind = "malformed" THEN [err |-> TRUE, presets |-> <<>>]
    ELSE [err |-> FALSE, presets |-> d.presets]

(* ---------------------------- list widget ---------------------------- *)

Max(a, b) == IF a > b THEN a ELSE b

\* m.list.SelectedItem() is a Preset
SelectedOk == listIndex >= 0 /\ listIndex < Len(listItems)

\* mutant of SelectedItem: the first item, wherever the cursor is
SelectedItemFirst == listItems[1]

SelectedItem == listItems[listIndex + 1]

CursorUp(i) == IF i - 1 < 0 THEN 0 ELSE i - 1

CursorDown(i, n) ==
    IF i + 1 < n THEN i + 1
    ELSE IF i + 1 > n THEN 0
    ELSE n - 1

KeepInBounds(i, n) == IF i > n - 1 THEN Max(0, n - 1) ELSE i

\* keys that reach the list: navigation, and one key the list does not bind
ListKeys == {"up", "down", "z"}

\* mutant of quitKeybindingsDisabled: the list keeps its quit keys
quitKeybindingsKept == FALSE

\* initialModel calls l.DisableQuitKeybindings(): the list's Quit and ForceQuit
\* bindings are switched off
quitKeybindingsDisabled == TRUE

\* the keys the list binds to Quit (q, esc) and to ForceQuit (ctrl+c)
ListQuitKeys == {"q", "esc", "ctrl+c"}

\* m.list.Update(msg) answers key k with tea.Quit
ListQuits(k) == ~quitKeybindingsDisabled /\ k \in ListQuitKeys

\* the keys of mainMenuView and of managePresetsView that no case of Update
\* takes and that therefore reach the list
MainListKeys == ListKeys \cup {"esc"}

ManageListKeys == ListKeys \cup {"ctrl+c", "q"}

\* m.list.Update(msg) for a key message, on n items with the cursor at i
ListUpdate(k, i, n) ==
    KeepInBounds(
        CASE k = "up" -> CursorUp(i)
          [] k = "down" -> CursorDown(i, n)
          [] OTHER -> i,
        n)

\* refreshList: the items are rebuilt from the config; SetItems keeps the cursor
refreshList(c) ==
    /\ listItems' = c
    /\ listIndex' = listIndex

(* ------------------------------- views ------------------------------- *)

mainMenuView == "mainMenuView"
customURLView == "customURLView"
quitConfirmView == "quitConfirmView"
loadingView == "loadingView"
managePresetsView == "managePresetsView"
addPresetView == "addPresetView"
editPresetView == "editPresetView"
deleteConfirmView == "deleteConfirmView"
restoreDefaultsConfirmView == "restoreDefaultsConfirmView"

(* ------------------------------ startup ------------------------------ *)

FilePreset == Preset(Str("a"), Str("a"))

\* what the config file can be when the program starts
StartFiles ==
    {Absent, Malformed, File(<<>>), File(<<FilePreset>>), File(<<FilePreset, FilePreset>>)}

\* initialModel: the config is loaded; on an error the defaults are taken and
\* saved, a failure of that save being ignored
Init ==
    \E d \in StartFiles, ok, partial \in BOOLEAN :
        LET l == loadConfig(d) IN
        /\ config = IF l.err THEN getDefaultConfig ELSE l.presets
        /\ disk = IF l.err THEN saveConfig(d, getDefaultConfig, ok, partial) ELSE d
        /\ lastSave = IF l.err THEN SaveResult(ok) ELSE "none"
        /\ wrote = l.err
        /\ listItems = config
        /\ listIndex = 0
        /\ state = mainMenuView
        /\ selectedIndex = 0
        /\ nameInput = <<>>
        /\ urlInput = <<>>
        /\ focusedInput = 0
        /\ textInput = <<>>
        /\ proc = [resolver |-> <<>>, player |-> <<>>]
        /\ quitting = FALSE
        /\ last = [branch |-> "initialModel", from |-> "none", res |-> [err |-> FALSE, out |-> <<>>]]
        /\ nkeys = 0

(* ------------------------------ helpers ------------------------------ *)

\* a message of the terminal can be delivered: the program runs and owns the
\* terminal
KeyReady == ~quitting /\ proc.player = <<>> /\ nkeys < MaxKeys

NoResult == [err |-> FALSE, out |-> <<>>]

\* history of a step that handles a key: b names the branch of Update taken,
\* w tells whether it called saveConfig
Handled(b, w) ==
    /\ last' = [branch |-> b, from |-> "none", res |-> NoResult]
    /\ wrote' = w
    /\ nkeys' = nkeys + 1

\* history of a step that handles a message of a subprocess: for a
\* streamURLMsg, the view that asked for the resolution and the resolver's result
HandledMsg(b, from, r) ==
    /\ last' = [branch |-> b, from |-> from, res |-> r]
    /\ wrote' = FALSE
    /\ nkeys' = nkeys

\* extractStreamURL(url) is started: one more resolver in flight
extractStreamURL(url) ==
    proc' = [proc EXCEPT !.resolver = Append(@, [url |-> url, from |-> state])]

\* saveConfig(m.config) is called, its error dropped
Save(c, ok, partial) ==
    /\ disk' = saveConfig(disk, c, ok, partial)
    /\ lastSave' = SaveResult(ok)

NoSave == UNCHANGED <<disk, lastSave>>

ListUnchanged == UNCHANGED <<listItems, listIndex>>

InputsUnchanged == UNCHANGED <<nameInput, urlInput, focusedInput>>

\* the step falls through to m.list.Update(msg)
ListUpdated(k) ==
    /\ listIndex' = ListUpdate(k, listIndex, Len(listItems))
    /\ listItems' = listItems
    /\ quitting' = (quitting \/ ListQuits(k))

(* ----------------------------- mainMenuView -------------------------- *)

MainQuit(k) ==
    /\ KeyReady /\ state = mainMenuView /\ k \in {"ctrl+c", "q"}
    /\ state' = quitConfirmView
    /\ Handled("MainQuit", FALSE)
    /\ NoSave /\ ListUnchanged /\ InputsUnchanged
    /\ UNCHANGED <<config, selectedIndex, textInput, proc, quitting>>

MainCustom ==
    /\ KeyReady /\ state = mainMenuView
    /\ state' = customURLView
    /\ Handled("MainCustom", FALSE)
    /\ NoSave /\ ListUnchanged /\ InputsUnchanged
    /\ UNCHANGED <<config, selectedIndex, textInput, proc, quitting>>

MainManage ==
    /\ KeyReady /\ state = mainMenuView
    /\ state' = managePresetsView
    /\ Handled("MainManage", FALSE)
    /\ NoSave /\ ListUnchanged /\ InputsUnchanged
    /\ UNCHANGED <<config, selectedIndex, textInput, proc, quitting>>

\* enter plays the selected preset; with none selected the key goes to the list
MainEnter ==
    /\ KeyReady /\ state = mainMenuView
    /\ IF SelectedOk
       THEN /\ state' = loadingView
            /\ extractStreamURL(SelectedItem.url)
            /\ ListUnchanged
            /\ quitting' = quitting
       ELSE /\ ListUpdated("enter")
            /\ UNCHANGED <<state, proc>>
    /\ Handled("MainEnter", FALSE)
    /\ NoSave /\ InputsUnchanged
    /\ UNCHANGED <<config, selectedIndex, textInput>>

MainListKey(k) ==
    /\ KeyReady /\ state = mainMenuView /\ k \in MainListKeys
    /\ ListUpdated(k)
    /\ Handled("MainListKey", FALSE)
    /\ NoSave /\ InputsUnchanged
    /\ UNCHANGED <<state, config, selectedIndex, textInput, proc>>

(* ----------------------------- customURLView ------------------------- *)

CustomCancel(k) ==
    /\ KeyReady /\ state = customURLView /\ k \in {"ctrl+c", "esc"}
    /\ state' = mainMenuView
    /\ textInput' = <<>>
    /\ Handled("CustomCancel", FALSE)
    /\ NoSave /\ ListUnchanged /\ InputsUnchanged
    /\ UNCHANGED <<config, selectedIndex, proc, quitting>>

\* enter with a non-empty text resolves it; with an empty text the key goes to
\* the text input, which does nothing with it
CustomEnter ==
    /\ KeyReady /\ state = customURLView
    /\ IF textInput # <<>>
       THEN /\ state' = loadingView
            /\ textInput' = <<>>
            /\ extractStreamURL(textInput)
       ELSE UNCHANGED <<state, textInput, proc>>
    /\ Handled("CustomEnter", FALSE)
    /\ NoSave /\ ListUnchanged /\ InputsUnchanged
    /\ UNCHANGED <<config, selectedIndex, quitting>>

\* m.textInput.Update(msg): a character key appends, backspace removes
CustomType(c) ==
    /\ KeyReady /\ state = customURLView /\ c \in TypedChars
    /\ textInput' = Append(textInput, c)
    /\ Handled("CustomKey", FALSE)
    /\ NoSave /\ ListUnchanged /\ InputsUnchanged
    /\ UNCHANGED <<state, config, selectedIndex, proc, quitting>>

CustomBackspace ==
    /\ KeyReady /\ state = customURLView
    /\ textInput' = DropLast(textInput)
    /\ Handled("CustomKey", FALSE)
    /\ NoSave /\ ListUnchanged /\ InputsUnchanged
    /\ UNCHANGED <<state, config, selectedIndex, proc, quitting>>

(* ---------------------------- quitConfirmView ------------------------ *)

QuitYes(k) ==
    /\ KeyReady /\ state = quitConfirmView /\ k \in {"y", "Y"}
    /\ quitting' = TRUE
    /\ Handled("QuitYes", FALSE)
    /\ NoSave /\ ListUnchanged /\ InputsUnchanged
    /\ UNCHANGED <<state, config, selectedIndex, textInput, proc>>

QuitNo(k) ==
    /\ KeyReady /\ state = quitConfirmView /\ k \in {"n", "N", "esc"}
    /\ state' = mainMenuView
    /\ Handled("QuitNo", FALSE)
    /\ NoSave /\ ListUnchanged /\ InputsUnchanged
    /\ UNCHANGED <<config, selectedIndex, textInput, proc, quitting>>

(* --------------------------- managePresetsView ----------------------- *)

ManageEsc ==
    /\ KeyReady /\ state = managePresetsView
    /\ state' = mainMenuView
    /\ Handled("ManageEsc", FALSE)
    /\ NoSave /\ ListUnchanged /\ InputsUnchanged
    /\ UNCHANGED <<config, selectedIndex, textInput, proc, quitting>>

\* mutant of ManageAdd: the fields and the focus are left as they were
ManageAddKeeps ==
    /\ KeyReady /\ state = managePresetsView
    /\ state' = addPresetView
    /\ InputsUnchanged
    /\ Handled("ManageAdd", FALSE)
    /\ NoSave /\ ListUnchanged
    /\ UNCHANGED <<config, selectedIndex, textInput, proc, quitting>>

ManageAdd ==
    /\ KeyReady /\ state = managePresetsView
    /\ state' = addPresetView
    /\ nameInput' = <<>>
    /\ urlInput' = <<>>
    /\ focusedInput' = 0
    /\ Handled("ManageAdd", FALSE)
    /\ NoSave /\ ListUnchanged
    /\ UNCHANGED <<config, selectedIndex, textInput, proc, quitting>>

\* mutant of ManageEdit: the index after the highlighted one is remembered
ManageEditNextIndex ==
    /\ KeyReady /\ state = managePresetsView
    /\ IF SelectedOk
       THEN /\ state' = editPresetView
            /\ selectedIndex' = listIndex + 1
            /\ nameInput' = SelectedItem.name
            /\ urlInput' = SelectedItem.url
            /\ focusedInput' = 0
            /\ ListUnchanged
            /\ quitting' = quitting
       ELSE /\ ListUpdated("e")
            /\ InputsUnchanged
            /\ UNCHANGED <<state, selectedIndex>>
    /\ Handled("ManageEdit", FALSE)
    /\ NoSave
    /\ UNCHANGED <<config, textInput, proc>>

\* e edits the selected preset; with none selected the key goes to the list
ManageEdit ==
    /\ KeyReady /\ state = managePresetsView
    /\ IF SelectedOk
       THEN /\ state' = editPresetView
            /\ selectedIndex' = listIndex
            /\ nameInput' = SelectedItem.name
            /\ urlInput' = SelectedItem.url
            /\ focusedInput' = 0
            /\ ListUnchanged
            /\ quitting' = quitting
       ELSE /\ ListUpdated("e")
            /\ InputsUnchanged
            /\ UNCHANGED <<state, selectedIndex>>
    /\ Handled("ManageEdit", FALSE)
    /\ NoSave
    /\ UNCHANGED <<config, textInput, proc>>

\* d and x ask for the deletion, whatever the list has selected
ManageDelete(k) ==
    /\ KeyReady /\ state = managePresetsView /\ k \in {"d", "x"}
    /\ state' = deleteConfirmView
    /\ selectedIndex' = listIndex
    /\ Handled("ManageDelete", FALSE)
    /\ NoSave /\ ListUnchanged /\ InputsUnchanged
    /\ UNCHANGED <<config, textInput, proc, quitting>>

ManageRestore ==
    /\ KeyReady /\ state = managePresetsView
    /\ state' = restoreDefaultsConfirmView
    /\ Handled("ManageRestore", FALSE)
    /\ NoSave /\ ListUnchanged /\ InputsUnchanged
    /\ UNCHANGED <<config, selectedIndex, textInput, proc, quitting>>

ManageEnter ==
    /\ KeyReady /\ state = managePresetsView
    /\ IF SelectedOk
       THEN /\ state' = loadingView
            /\ extractStreamURL(SelectedItem.url)
            /\ ListUnchanged
            /\ quitting' = quitting
       ELSE /\ ListUpdated("enter")
            /\ UNCHANGED <<state, proc>>
    /\ Handled("ManageEnter", FALSE)
    /\ NoSave /\ InputsUnchanged
    /\ UNCHANGED <<config, selectedIndex, textInput>>

ManageListKey(k) ==
    /\ KeyReady /\ state = managePresetsView /\ k \in ManageListKeys
    /\ ListUpdated(k)
    /\ Handled("ManageListKey", FALSE)
    /\ NoSave /\ InputsUnchanged
    /\ UNCHANGED <<state, config, selectedIndex, textInput, proc>>

(* ---------------------- addPresetView, editPresetView ---------------- *)

\* mutant of BothGiven: one field is enough
BothGivenEither(name, url) == name # <<>> \/ url # <<>>

\* the test both enter branches make on the two trimmed fields
BothGiven(name, url) == name # <<>> /\ url # <<>>

\* mutant of AppendPreset: the new entry goes first
AppendPresetFirst(c, name, url) == <<Preset(name, url)>> \o c

\* append(m.config.Presets, newPreset)
AppendPreset(c, name, url) == Append(c, Preset(name, url))

\* mutant of SetPreset: the highlighted row is taken for the first one
SetPresetFirst(c, i, name, url) == [c EXCEPT ![1] = Preset(name, url)]

\* m.config.Presets[i] = Preset{...}, i counted from 0
SetPreset(c, i, name, url) == [c EXCEPT ![i + 1] = Preset(name, url)]

\* mutant of RemovePreset: the last entry goes instead of entry i
RemovePresetLast(c, i) == SubSeq(c, 1, Len(c) - 1)

\* append(m.config.Presets[:i], m.config.Presets[i+1:]...), i counted from 0
RemovePreset(c, i) == SubSeq(c, 1, i) \o SubSeq(c, i + 2, Len(c))

\* mutant of ToggleFocus: the focus goes to the url and stays there
ToggleFocusStuck(f) == 1

ToggleFocus(f) == IF f = 0 THEN 1 ELSE 0

AddEsc ==
    /\ KeyReady /\ state = addPresetView
    /\ state' = managePresetsView
    /\ Handled("AddEsc", FALSE)
    /\ NoSave /\ ListUnchanged /\ InputsUnchanged
    /\ UNCHANGED <<config, selectedIndex, textInput, proc, quitting>>

AddTab(k) ==
    /\ KeyReady /\ state = addPresetView /\ k \in {"tab", "shift+tab"}
    /\ focusedInput' = ToggleFocus(focusedInput)
    /\ Handled("AddTab", FALSE)
    /\ NoSave /\ ListUnchanged
    /\ UNCHANGED <<state, config, selectedIndex, nameInput, urlInput, textInput,
                   proc, quitting>>

\* mutant of AddEnter: when the save fails the preset is taken back and the
\* view stays
AddEnterRollsBack ==
    /\ KeyReady /\ state = addPresetView
    /\ LET name == TrimSpace(nameInput)
           url == TrimSpace(urlInput)
       IN IF BothGiven(name, url)
          THEN /\ \E ok, partial \in BOOLEAN :
                     /\ config' = IF ok THEN AppendPreset(config, name, url) ELSE config
                     /\ Save(AppendPreset(config, name, url), ok, partial)
                     /\ state' = IF ok THEN managePresetsView ELSE state
               /\ refreshList(config')
               /\ Handled("AddEnter", TRUE)
          ELSE /\ Handled("AddEnter", FALSE)
               /\ NoSave /\ ListUnchanged
               /\ UNCHANGED <<state, config>>
    /\ InputsUnchanged
    /\ UNCHANGED <<selectedIndex, textInput, proc, quitting>>

AddEnter ==
    /\ KeyReady /\ state = addPresetView
    /\ LET name == TrimSpace(nameInput)
           url == TrimSpace(urlInput)
       IN IF BothGiven(name, url)
          THEN /\ config' = AppendPreset(config, name, url)
               /\ \E ok, partial \in BOOLEAN : Save(config', ok, partial)
               /\ refreshList(config')
               /\ state' = managePresetsView
               /\ Handled("AddEnter", TRUE)
          ELSE /\ Handled("AddEnter", FALSE)
               /\ NoSave /\ ListUnchanged
               /\ UNCHANGED <<state, config>>
    /\ InputsUnchanged
    /\ UNCHANGED <<selectedIndex, textInput, proc, quitting>>

\* mutant of EditEsc: the cancelled edit is applied to the configuration
EditEscApplies ==
    /\ KeyReady /\ state = editPresetView
    /\ state' = managePresetsView
    /\ config' = IF selectedIndex < Len(config)
                 THEN [config EXCEPT ![selectedIndex + 1] = [name |-> nameInput, url |-> urlInput]]
                 ELSE config
    /\ Handled("EditEsc", FALSE)
    /\ NoSave /\ ListUnchanged /\ InputsUnchanged
    /\ UNCHANGED <<selectedIndex, textInput, proc, quitting>>

EditEsc ==
    /\ KeyReady /\ state = editPresetView
    /\ state' = managePresetsView
    /\ Handled("EditEsc", FALSE)
    /\ NoSave /\ ListUnchanged /\ InputsUnchanged
    /\ UNCHANGED <<config, selectedIndex, textInput, proc, quitting>>

EditTab(k) ==
    /\ KeyReady /\ state = editPresetView /\ k \in {"tab", "shift+tab"}
    /\ focusedInput' = ToggleFocus(focusedInput)
    /\ Handled("EditTab", FALSE)
    /\ NoSave /\ ListUnchanged
    /\ UNCHANGED <<state, config, selectedIndex, nameInput, urlInput, textInput,
                   proc, quitting>>

EditEnter ==
    /\ KeyReady /\ state = editPresetView
    /\ LET name == TrimSpace(nameInput)
           url == TrimSpace(urlInput)
       IN IF BothGiven(name, url) /\ selectedIndex < Len(config)
          THEN /\ config' = SetPreset(config, selectedIndex, name, url)
               /\ \E ok, partial \in BOOLEAN : Save(config', ok, partial)
               /\ refreshList(config')
               /\ state' = managePresetsView
               /\ Handled("EditEnter", TRUE)
          ELSE /\ Handled("EditEnter", FALSE)
               /\ NoSave /\ ListUnchanged
               /\ UNCHANGED <<state, config>>
    /\ InputsUnchanged
    /\ UNCHANGED <<selectedIndex, textInput, proc, quitting>>

\* any other key goes to the focused input: a character key appends
InputType(c) ==
    /\ KeyReady /\ state \in {addPresetView, editPresetView} /\ c \in TypedChars
    /\ IF focusedInput = 0
       THEN /\ nameInput' = Append(nameInput, c)
            /\ urlInput' = urlInput
       ELSE /\ urlInput' = Append(urlInput, c)
            /\ nameInput' = nameInput
    /\ Handled("InputKey", FALSE)
    /\ NoSave /\ ListUnchanged
    /\ UNCHANGED <<state, config, selectedIndex, focusedInput, textInput, proc,
                   quitting>>

\* backspace removes the last character of the focused input
InputBackspace ==
    /\ KeyReady /\ state \in {addPresetView, editPresetView}
    /\ IF focusedInput = 0
       THEN nameInput' = DropLast(nameInput) /\ urlInput' = urlInput
       ELSE urlInput' = DropLast(urlInput) /\ nameInput' = nameInput
    /\ Handled("InputKey", FALSE)
    /\ NoSave /\ ListUnchanged
    /\ UNCHANGED <<state, config, selectedIndex, focusedInput, textInput, proc,
                   quitting>>

(* --------------------------- deleteConfirmView ----------------------- *)

DeleteYes(k) ==
    /\ KeyReady /\ state = deleteConfirmView /\ k \in {"y", "Y"}
    /\ IF selectedIndex < Len(config)
       THEN /\ config' = RemovePreset(config, selectedIndex)
            /\ \E ok, partial \in BOOLEAN : Save(config', ok, partial)
            /\ refreshList(config')
            /\ Handled("DeleteYes", TRUE)
       ELSE /\ Handled("DeleteYes", FALSE)
            /\ NoSave /\ ListUnchanged
            /\ UNCHANGED <<config>>
    /\ state' = managePresetsView
    /\ InputsUnchanged
    /\ UNCHANGED <<selectedIndex, textInput, proc, quitting>>

DeleteNo(k) ==
    /\ KeyReady /\ state = deleteConfirmView /\ k \in {"n", "N", "esc"}
    /\ state' = managePresetsView
    /\ Handled("DeleteNo", FALSE)
    /\ NoSave /\ ListUnchanged /\ InputsUnchanged
    /\ UNCHANGED <<config, selectedIndex, textInput, proc, quitting>>

(* ----------------------- restoreDefaultsConfirmView ------------------ *)

RestoreYes(k) ==
    /\ KeyReady /\ state = restoreDefaultsConfirmView /\ k \in {"y", "Y"}
    /\ config' = getDefaultConfig
    /\ \E ok, partial \in BOOLEAN : Save(config', ok, partial)
    /\ refreshList(config')
    /\ state' = managePresetsView
    /\ Handled("RestoreYes", TRUE)
    /\ InputsUnchanged
    /\ UNCHANGED <<selectedIndex, textInput, proc, quitting>>

RestoreNo(k) ==
    /\ KeyReady /\ state = restoreDefaultsConfirmView /\ k \in {"n", "N", "esc"}
    /\ state' = managePresetsView
    /\ Handled("RestoreNo", FALSE)
    /\ NoSave /\ ListUnchanged /\ InputsUnchanged
    /\ UNCHANGED <<config, selectedIndex, textInput, proc, quitting>>

(* -------------------- keys no branch of Update handles --------------- *)

\* ctrl+c in addPresetView and editPresetView goes to the focused text input,
\* which binds nothing to it and has no rune to insert
InputIgnored(k) ==
    /\ KeyReady /\ k = "ctrl+c"
    /\ state \in {addPresetView, editPresetView}
    /\ Handled("InputIgnored", FALSE)
    /\ NoSave /\ ListUnchanged /\ InputsUnchanged
    /\ UNCHANGED <<state, config, selectedIndex, textInput, proc, quitting>>

\* the keys some view of the program gives a meaning to
Keys ==
    {"ctrl+c", "q", "esc", "enter", "tab", "shift+tab", "y", "Y", "n", "N",
     "c", "m", "a", "e", "d", "x", "r", "up", "down", "backspace"}

\* the keys the cases of the three dialogs take
DialogKeys == {"y", "Y", "n", "N", "esc"}

\* mutant of IgnoredKey: esc leaves loadingView
IgnoredKeyEscLeaves(k) ==
    /\ KeyReady /\ k \in Keys
    /\ \/ state = loadingView
       \/ /\ state \in {quitConfirmView, deleteConfirmView, restoreDefaultsConfirmView}
          /\ k \notin DialogKeys
    /\ state' = IF state = loadingView /\ k = "esc" THEN mainMenuView ELSE state
    /\ Handled("IgnoredKey", FALSE)
    /\ NoSave /\ ListUnchanged /\ InputsUnchanged
    /\ UNCHANGED <<config, selectedIndex, textInput, proc, quitting>>

\* in the three dialogs no widget gets the key; in loadingView no case takes
\* any key, the spinner gets it and does nothing with it
IgnoredKey(k) ==
    /\ KeyReady /\ k \in Keys
    /\ \/ state = loadingView
       \/ /\ state \in {quitConfirmView, deleteConfirmView, restoreDefaultsConfirmView}
          /\ k \notin DialogKeys
    /\ Handled("IgnoredKey", FALSE)
    /\ NoSave /\ ListUnchanged /\ InputsUnchanged
    /\ UNCHANGED <<state, config, selectedIndex, textInput, proc, quitting>>

(* ------------------------- resolver and player ----------------------- *)

\* what yt-dlp can end with: an error (a non-zero exit, or no yt-dlp to run),
\* or exit status 0 and its standard output
ResolverOutputs == {<<>>, <<" ">>, <<"stream", " ">>}

ResolverResults ==
    {[err |-> TRUE, out |-> <<>>]} \cup {[err |-> FALSE, out |-> o] : o \in ResolverOutputs}

\* mutant of streamURLMsg: the resolver's error is dropped
streamURLMsgNoErr(r) == [err |-> FALSE, url |-> TrimSpace(r.out)]

\* the message extractStreamURL's command posts for result r
streamURLMsg(r) ==
    IF r.err THEN [err |-> TRUE, url |-> <<>>]
    ELSE [err |-> FALSE, url |-> TrimSpace(r.out)]

\* mutant of playMPV: the player is started twice
playMPVTwice(url) ==
    proc' = [proc EXCEPT !.resolver = Tail(@), !.player = Append(Append(proc.player, url), url)]

\* playMPV(url): the player takes the terminal
playMPV(url) == proc' = [proc EXCEPT !.resolver = Tail(@), !.player = Append(proc.player, url)]

\* the resolver in flight ends and Update handles its streamURLMsg
StreamURL(r) ==
    /\ ~quitting /\ proc.player = <<>> /\ proc.resolver # <<>>
    /\ r \in ResolverResults
    /\ LET m == streamURLMsg(r) IN
       IF m.err
       THEN /\ state' = mainMenuView
            /\ proc' = [proc EXCEPT !.resolver = Tail(@)]
       ELSE /\ playMPV(m.url)
            /\ state' = state
    /\ HandledMsg("streamURLMsg", Head(proc.resolver).from, r)
    /\ NoSave /\ ListUnchanged /\ InputsUnchanged
    /\ UNCHANGED <<config, selectedIndex, textInput, quitting>>

\* mutant of StreamEnded: the view is left as it is
StreamEndedStays(failed) ==
    /\ ~quitting /\ proc.player # <<>>
    /\ failed \in BOOLEAN
    /\ proc' = [proc EXCEPT !.player = Tail(@)]
    /\ state' = state
    /\ HandledMsg("streamEndedMsg", "none", [err |-> failed, out |-> <<>>])
    /\ NoSave /\ ListUnchanged /\ InputsUnchanged
    /\ UNCHANGED <<config, selectedIndex, textInput, quitting>>

\* the player exits, with error failed or without (ExecProcess hands the
\* error to the callback of playMPV, which drops it), and Update handles
\* streamEndedMsg
StreamEnded(failed) ==
    /\ ~quitting /\ proc.player # <<>>
    /\ failed \in BOOLEAN
    /\ proc' = [proc EXCEPT !.player = Tail(@)]
    /\ state' = mainMenuView
    /\ HandledMsg("streamEndedMsg", "none", [err |-> failed, out |-> <<>>])
    /\ NoSave /\ ListUnchanged /\ InputsUnchanged
    /\ UNCHANGED <<config, selectedIndex, textInput, quitting>>

(* ------------------- window size and spinner ticks ------------------- *)

\* mutant of WindowSize: the message puts the defaults back
WindowSizeRestores ==
    /\ KeyReady
    /\ config' = getDefaultConfig
    /\ Handled("WindowSizeMsg", FALSE)
    /\ NoSave /\ ListUnchanged /\ InputsUnchanged
    /\ UNCHANGED <<state, selectedIndex, textInput, proc, quitting>>

\* tea.WindowSizeMsg: the case sets width, height and ready, the size of the
\* list and the width of the custom URL input, and returns; on the one page
\* the list is modelled on, its items and its cursor stay
WindowSize ==
    /\ KeyReady
    /\ Handled("WindowSizeMsg", FALSE)
    /\ NoSave /\ ListUnchanged /\ InputsUnchanged
    /\ UNCHANGED <<state, config, selectedIndex, textInput, proc, quitting>>

\* spinner.TickMsg while the resolver runs: no case of Update takes it, the
\* spinner of loadingView gets it and moves to its next frame
SpinnerTick ==
    /\ ~quitting /\ proc.player = <<>> /\ state = loadingView
    /\ HandledMsg("spinner.TickMsg", "none", NoResult)
    /\ NoSave /\ ListUnchanged /\ InputsUnchanged
    /\ UNCHANGED <<state, config, selectedIndex, textInput, proc, quitting>>

(* --------------------------- specification --------------------------- *)

Next ==
    \/ \E k \in {"ctrl+c", "q"} : MainQuit(k)
    \/ MainCustom
    \/ MainManage
    \/ MainEnter
    \/ \E k \in MainListKeys : MainListKey(k)
    \/ \E k \in {"ctrl+c", "esc"} : CustomCancel(k)
    \/ CustomEnter
    \/ \E c \in TypedChars : CustomType(c)
    \/ CustomBackspace
    \/ \E k \in {"y", "Y"} : QuitYes(k)
    \/ \E k \in {"n", "N", "esc"} : QuitNo(k)
    \/ ManageEsc
    \/ ManageAdd
    \/ ManageEdit
    \/ \E k \in {"d", "x"} : ManageDelete(k)
    \/ ManageRestore
    \/ ManageEnter
    \/ \E k \in ManageListKeys : ManageListKey(k)
    \/ AddEsc
    \/ \E k \in {"tab", "shift+tab"} : AddTab(k)
    \/ AddEnter
    \/ EditEsc
    \/ \E k \in {"tab", "shift+tab"} : EditTab(k)
    \/ EditEnter
    \/ \E c \in TypedChars : InputType(c)
    \/ InputBackspace
    \/ \E k \in {"y", "Y"} : DeleteYes(k)
    \/ \E k \in {"n", "N", "esc"} : DeleteNo(k)
    \/ \E k \in {"y", "Y"} : RestoreYes(k)
    \/ \E k \in {"n", "N", "esc"} : RestoreNo(k)
    \/ \E k \in Keys : IgnoredKey(k)
    \/ \E k \in {"ctrl+c"} : InputIgnored(k)
    \/ \E r \in ResolverResults : StreamURL(r)
    \/ \E failed \in BOOLEAN : StreamEnded(failed)
    \/ WindowSize
    \/ SpinnerTick

Spec == Init /\ [][Next]_vars

TypeOK ==
    /\ state \in {mainMenuView, customURLView, quitConfirmView, loadingView,
                  managePresetsView, addPresetView, editPresetView,
                  deleteConfirmView, restoreDefaultsConfirmView}
    /\ listIndex \in Nat
    /\ selectedIndex \in Nat
    /\ focusedInput \in {0, 1}
    /\ quitting \in BOOLEAN
    /\ wrote \in BOOLEAN
    /\ lastSave \in {"none", "ok", "err"}
    /\ nkeys \in 0..MaxKeys

(* ------------------------------- claims ------------------------------ *)

\* The trimmed text of s, said without TrimSpace: the one piece t of s with
\* only blanks before and after it that neither starts nor ends with a blank.
Blank(s) == \A i \in 1..Len(s) : s[i] = " "

IsTrimOf(t, s) ==
    /\ t = <<>> \/ (t[1] # " " /\ t[Len(t)] # " ")
    /\ \E a \in 0..Len(s) :
          /\ a + Len(t) <= Len(s)
          /\ Blank(SubSeq(s, 1, a))
          /\ SubSeq(s, a + 1, a + Len(t)) = t
          /\ Blank(SubSeq(s, a + Len(t) + 1, Len(s)))

Trimmed(s) ==
    CHOOSE t \in {SubSeq(s, i, j) : i \in 1..(Len(s) + 1), j \in 0..Len(s)} : IsTrimOf(t, s)

\* the step just taken carried out an add, edit, delete or restore
Mutated == last.branch \in {"AddEnter", "EditEnter", "DeleteYes", "RestoreYes"} /\ wrote

\* a successful save leaves the new entries in the file
Persisted == wrote' /\ (lastSave' = "ok" => disk' = File(config'))

NothingWritten == ~wrote' /\ disk' = disk /\ lastSave' = lastSave

\* C1: right after every confirmed add, edit, delete or restore the list's
\* items are the configuration's entries, in order, and the highlighted index
\* is within 0..count-1 unless the configuration is empty.
C1_ListFollowsConfig ==
    Mutated =>
        /\ listItems = config
        /\ Len(config) = 0 \/ listIndex \in 0..(Len(config) - 1)

\* C2: the yes key in deleteConfirmView with a valid remembered index i removes
\* exactly entry i (the entries before it stay, the entries after it move down
\* by one), calls saveConfig with the new entries and goes to
\* managePresetsView; with an invalid index nothing changes, nothing is
\* written, and the view is managePresetsView all the same.
C2_DeleteConfirm ==
    [][(state = deleteConfirmView /\ last'.branch = "DeleteYes") =>
          /\ state' = managePresetsView
          /\ IF 0 <= selectedIndex /\ selectedIndex < Len(config)
             THEN /\ Len(config') = Len(config) - 1
                  /\ \A j \in 1..Len(config') :
                        config'[j] = IF j <= selectedIndex THEN config[j] ELSE config[j + 1]
                  /\ Persisted
             ELSE /\ config' = config
                  /\ NothingWritten]_vars

C2_Witness ==
    /\ last.branch = "DeleteYes" /\ wrote /\ state = managePresetsView
    /\ selectedIndex = 1
    /\ Len(config) = 9
    /\ config[1] = getDefaultConfig[1]
    /\ config[2] = getDefaultConfig[3]
    /\ config[9] = getDefaultConfig[10]
    /\ disk = File(config)

\* C3: enter in addPresetView with both trimmed fields non-empty appends the
\* one entry {trimmed name, trimmed url}: the entries there before keep place
\* and value, saveConfig is called with the new entries, and the view becomes
\* managePresetsView.
C3_AddConfirm ==
    [][(state = addPresetView /\ last'.branch = "AddEnter"
        /\ Trimmed(nameInput) # <<>> /\ Trimmed(urlInput) # <<>>) =>
          /\ Len(config') = Len(config) + 1
          /\ \A j \in 1..Len(config) : config'[j] = config[j]
          /\ config'[Len(config')] = [name |-> Trimmed(nameInput), url |-> Trimmed(urlInput)]
          /\ Persisted
          /\ state' = managePresetsView]_vars

C3_Witness ==
    /\ last.branch = "AddEnter" /\ wrote /\ state = managePresetsView
    /\ nameInput = <<" ", "a">>
    /\ Len(config) = 11
    /\ config[11] = [name |-> <<"a">>, url |-> <<"a">>]
    /\ disk = File(config)

\* C4: e in managePresetsView remembers the highlighted index, which stays the
\* highlighted one for as long as the view is editPresetView; enter there with
\* both trimmed fields non-empty and that index valid overwrites the entry at
\* it with {trimmed name, trimmed url} and no other, calls saveConfig and goes
\* to managePresetsView.
C4_EditConfirm ==
    [][/\ (state = managePresetsView /\ state' = editPresetView) =>
              selectedIndex' = listIndex
       /\ state' = editPresetView =>
              selectedIndex' = listIndex'
       /\ (state = editPresetView /\ last'.branch = "EditEnter"
           /\ Trimmed(nameInput) # <<>> /\ Trimmed(urlInput) # <<>>
           /\ 0 <= selectedIndex /\ selectedIndex < Len(config)) =>
              /\ Len(config') = Len(config)
              /\ \A j \in 1..Len(config) :
                    config'[j] = IF j = selectedIndex + 1
                                 THEN [name |-> Trimmed(nameInput), url |-> Trimmed(urlInput)]
                                 ELSE config[j]
              /\ Persisted
              /\ state' = managePresetsView]_vars

C4_Witness ==
    /\ last.branch = "EditEnter" /\ wrote /\ state = managePresetsView
    /\ selectedIndex = 1 /\ listIndex = 1
    /\ Len(config) = 10
    /\ config[1] = getDefaultConfig[1]
    /\ config[2] = [name |-> <<"a">>, url |-> getDefaultConfig[2].url]
    /\ config[3] = getDefaultConfig[3]

\* the default streams, as the README lists them
C5_Defaults ==
    << <<"Lofi Girl - Study", "https://www.youtube.com/watch?v=jfKfPfyJRdk">>,
       <<"Lofi Girl - Sleep", "https://www.youtube.com/watch?v=DWcJFNfaw9c">>,
       <<"Lofi Girl - Jazz", "https://www.youtube.com/watch?v=HuFYqnbVbzY">>,
       <<"Synthwave Radio", "https://www.youtube.com/watch?v=4xDzrJKXOOY">>,
       <<"Chillhop Music", "https://www.youtube.com/watch?v=5yx6BWlEVcY">>,
       <<"The Bootleg Boy", "https://www.youtube.com/watch?v=FWjZ0x2M8og">>,
       <<"Dreamhop Music", "https://www.youtube.com/live/D5bqo8lcny4">>,
       <<"Lofi Geek", "https://www.youtube.com/watch?v=1tJ8sc8I4z0">>,
       <<"STEEZYASFUCK", "https://www.youtube.com/watch?v=S_MOd40zlYU">>,
       <<"Homework Radio", "https://www.youtube.com/watch?v=lTRiuFIWV54">> >>

\* C5: whatever was added, edited, deleted or restored before, the yes key in
\* restoreDefaultsConfirmView makes the configuration the ten default
\* entries in their order, calls saveConfig with them and goes to
\* managePresetsView; the defaults are the same ten pairs each time.
C5_RestoreDefaults ==
    [][(state = restoreDefaultsConfirmView /\ last'.branch = "RestoreYes") =>
          /\ Len(config') = 10
          /\ \A j \in 1..10 :
                config'[j] = [name |-> <<C5_Defaults[j][1]>>, url |-> <<C5_Defaults[j][2]>>]
          /\ Persisted
          /\ state' = managePresetsView]_vars

\* a restore whose save failed, after an edit of the first default entry that
\* was saved: the file still shows the edit, the configuration is the defaults
C5_Witness ==
    /\ last.branch = "RestoreYes" /\ state = managePresetsView
    /\ lastSave = "err"
    /\ disk.kind = "file" /\ Len(disk.presets) = 10
    /\ disk.presets[1].name = <<"a">>
    /\ disk.presets[2] = getDefaultConfig[2]
    /\ config = getDefaultConfig

\* C6: enter in addPresetView or editPresetView with the trimmed name or the
\* trimmed url empty is dropped: the view, the configuration, the list and
\* the two fields stay as they are and saveConfig is not called.
C6_EmptyRejected ==
    [][(last'.branch \in {"AddEnter", "EditEnter"}
        /\ (Trimmed(nameInput) = <<>> \/ Trimmed(urlInput) = <<>>)) =>
          /\ state \in {addPresetView, editPresetView}
          /\ UNCHANGED <<state, config, listItems, listIndex, nameInput, urlInput,
                         focusedInput>>
          /\ NothingWritten]_vars

C6_Witness ==
    /\ last.branch = "AddEnter" /\ state = addPresetView /\ ~wrote
    /\ nameInput = <<"a">>
    /\ urlInput = <<" ">>
    /\ focusedInput = 1

\* C7: a streamURLMsg with an error sends the view to mainMenuView; the player
\* is not started, no resolution is started again, the configuration and the
\* list stay as they are and saveConfig is not called, from whichever view
\* the resolution was asked.
C7_ResolutionError ==
    [][(last'.branch = "streamURLMsg" /\ last'.res.err) =>
          /\ state' = mainMenuView
          /\ proc'.player = <<>>
          /\ proc'.resolver = <<>>
          /\ UNCHANGED <<config, listItems, listIndex>>
          /\ NothingWritten]_vars

C7_Witness ==
    /\ last.branch = "streamURLMsg" /\ last.res.err
    /\ last.from = customURLView
    /\ state = mainMenuView
    /\ proc.player = <<>>

\* C8: a resolver that exits with status 0 and nothing but blanks on its
\* standard output counts as a failed resolution: the view goes to
\* mainMenuView and the player is not started with an empty URL.
C8_EmptyOutputIsError ==
    [][(last'.branch = "streamURLMsg" /\ ~last'.res.err /\ Trimmed(last'.res.out) = <<>>) =>
          /\ state' = mainMenuView
          /\ proc'.player = <<>>]_vars

\* C9: a step that changes the configuration calls saveConfig in the same
\* step; once a save has succeeded the file holds the entries of the
\* configuration, and stays so until the next add, edit, delete or restore;
\* a step that does not call saveConfig changes neither.
C9_SavedAfterMutation ==
    [][/\ config' # config => wrote'
       /\ lastSave' = "ok" => disk' = File(config')
       /\ ~wrote' => (config' = config /\ disk' = disk)]_vars

\* an add was saved, and a key later the file still holds the eleven entries
C9_Witness ==
    /\ last.branch = "ManageListKey" /\ ~wrote
    /\ lastSave = "ok"
    /\ Len(config) = 11
    /\ disk = File(config)

\* C10: d or x in managePresetsView goes to deleteConfirmView, remembering the
\* highlighted index, only when the list has a selected entry; with none the
\* key does nothing and the view stays managePresetsView.
C10_DeleteNeedsSelection ==
    [][(state = managePresetsView /\ last'.branch = "ManageDelete") =>
          IF SelectedOk
          THEN state' = deleteConfirmView /\ selectedIndex' = listIndex
          ELSE state' = managePresetsView /\ selectedIndex' = selectedIndex]_vars

\* C11: enter in mainMenuView and managePresetsView, and e in
\* managePresetsView, act only when the list has an entry selected. With one
\* selected, enter goes to loadingView and starts exactly one resolution, of
\* the url of the configuration's entry at the highlighted index, and e goes to
\* editPresetView with the two fields holding that entry's name and url; with
\* none selected the view stays and no resolution starts. The configuration is
\* the same after the key in every case.
C11_ActsOnSelection ==
    [][/\ last'.branch \in {"MainEnter", "ManageEnter"} =>
             /\ config' = config
             /\ IF listIndex < Len(config)
                THEN /\ state' = loadingView
                     /\ Len(proc'.resolver) = Len(proc.resolver) + 1
                     /\ SubSeq(proc'.resolver, 1, Len(proc.resolver)) = proc.resolver
                     /\ proc'.resolver[Len(proc'.resolver)].url = config[listIndex + 1].url
                ELSE /\ state' = state
                     /\ proc' = proc
       /\ last'.branch = "ManageEdit" =>
             /\ config' = config
             /\ proc' = proc
             /\ IF listIndex < Len(config)
                THEN /\ state' = editPresetView
                     /\ nameInput' = config[listIndex + 1].name
                     /\ urlInput' = config[listIndex + 1].url
                ELSE state' = state]_vars

\* the second preset was played from managePresetsView
C11_Witness ==
    /\ last.branch = "ManageEnter"
    /\ state = loadingView
    /\ listIndex = 1
    /\ Len(proc.resolver) = 1
    /\ proc.resolver[1].url = config[2].url
    /\ proc.resolver[1].url # config[1].url

\* the resolutions and players that have been started and have not ended
InFlight(p) == Len(p.resolver) + Len(p.player)

\* C12: in loadingView no key changes the view, ends the resolution in flight
\* or starts another one. At most one resolution is in flight at any time;
\* each entry into loadingView starts exactly one; each resolution ends with
\* exactly one streamURLMsg; a streamURLMsg or a streamEndedMsg is handled only
\* while the view is loadingView.
C12_LoadingIgnoresKeys ==
    [][/\ (state = loadingView /\ nkeys' # nkeys) =>
             (state' = loadingView /\ proc' = proc)
       /\ InFlight(proc') <= 1
       /\ (state # loadingView /\ state' = loadingView) =>
             (proc.resolver = <<>> /\ Len(proc'.resolver) = 1)
       /\ (last'.branch = "streamURLMsg") <=> (Len(proc'.resolver) = Len(proc.resolver) - 1)
       /\ Len(proc'.resolver) >= Len(proc.resolver) - 1
       /\ last'.branch \in {"streamURLMsg", "streamEndedMsg"} => state = loadingView]_vars

\* a key was pressed while the resolver was running, which still runs
C12_Witness ==
    /\ state = loadingView
    /\ last.branch = "IgnoredKey"
    /\ Len(proc.resolver) = 1
    /\ proc.player = <<>>

\* C13: the player is started only by the step that handles a streamURLMsg
\* without error, once, with the resolver's output trimmed of blanks as its
\* URL; the view stays loadingView as long as the player runs. When the player
\* ends, with an error or without, its one streamEndedMsg takes the view to
\* mainMenuView; that step changes neither the configuration nor the list nor
\* the file, and leaves no trace of the player's error.
C13_PlayerLifecycle ==
    [][/\ proc'.player # proc.player /\ proc'.player # <<>> =>
             /\ last'.branch = "streamURLMsg" /\ ~last'.res.err
             /\ proc.player = <<>>
       /\ (last'.branch = "streamURLMsg" /\ ~last'.res.err) =>
             /\ proc'.player = <<Trimmed(last'.res.out)>>
             /\ state' = loadingView
       /\ proc'.player # <<>> => state' = loadingView
       /\ Len(proc'.player) < Len(proc.player) =>
             /\ last'.branch = "streamEndedMsg"
             /\ proc'.player = <<>>
       /\ last'.branch = "streamEndedMsg" =>
             /\ proc.player # <<>> /\ proc'.player = <<>>
             /\ state' = mainMenuView
             /\ config' = config /\ listItems' = listItems /\ listIndex' = listIndex
             /\ NothingWritten
             /\ <<selectedIndex', nameInput', urlInput', focusedInput', textInput', quitting'>>
                   = <<selectedIndex, nameInput, urlInput, focusedInput, textInput, quitting>>]_vars

\* the player had been started on a resolved URL and ended with an error
C13_Witness ==
    /\ last.branch = "streamEndedMsg" /\ last.res.err
    /\ state = mainMenuView
    /\ proc = [resolver |-> <<>>, player |-> <<>>]

(* ------------------------------ fairness ----------------------------- *)

\* the resolver ends (yt-dlp exits, or cannot be started) and the player ends
\* (mpv exits, or cannot be started): each message that is due is delivered
Fairness ==
    /\ WF_vars(\E r \in ResolverResults : StreamURL(r))
    /\ WF_vars(\E failed \in BOOLEAN : StreamEnded(failed))

FairSpec == Init /\ [][Next]_vars /\ Fairness

\* C14: if the resolver always ends and the player always exits, every time
\* the view is loadingView it is mainMenuView some time later, whichever view
\* the stream was started from.
C14_LoadingEnds == (state = loadingView) ~> (state = mainMenuView)

\* a stream started from managePresetsView played, ended, and the view is
\* mainMenuView
C14_Witness ==
    /\ last.branch = "streamEndedMsg" /\ ~last.res.err
    /\ state = mainMenuView
    /\ selectedIndex = 0 /\ listIndex = 1
    /\ nkeys = 3

\* C15: esc in managePresetsView, ctrl+c or esc in customURLView, and n, N or
\* esc in quitConfirmView go to mainMenuView; esc in addPresetView and
\* editPresetView, and n, N or esc in deleteConfirmView and
\* restoreDefaultsConfirmView go to managePresetsView. None of these steps
\* changes the configuration, the list's items or the file; the one from
\* customURLView also empties the typed URL.
C15_CancelChangesNothing ==
    [][/\ last'.branch \in {"ManageEsc", "CustomCancel", "QuitNo"} =>
             state' = mainMenuView
       /\ last'.branch \in {"AddEsc", "EditEsc", "DeleteNo", "RestoreNo"} =>
             state' = managePresetsView
       /\ last'.branch \in {"ManageEsc", "CustomCancel", "QuitNo", "AddEsc", "EditEsc",
                            "DeleteNo", "RestoreNo"} =>
             /\ config' = config
             /\ listItems' = listItems
             /\ NothingWritten
       /\ last'.branch = "CustomCancel" => textInput' = <<>>
       /\ last'.branch = "ManageEsc" => state = managePresetsView
       /\ last'.branch = "CustomCancel" => state = customURLView
       /\ last'.branch = "QuitNo" => state = quitConfirmView
       /\ last'.branch = "AddEsc" => state = addPresetView
       /\ last'.branch = "EditEsc" => state = editPresetView
       /\ last'.branch = "DeleteNo" => state = deleteConfirmView
       /\ last'.branch = "RestoreNo" => state = restoreDefaultsConfirmView]_vars

\* an edit was typed and then cancelled: the entries are the defaults still
C15_Witness ==
    /\ last.branch = "EditEsc"
    /\ state = managePresetsView
    /\ nameInput # config[selectedIndex + 1].name
    /\ config = getDefaultConfig
    /\ listItems = config

\* C16: the program ends only by y or Y in quitConfirmView, and
\* quitConfirmView is entered only by ctrl+c or q in mainMenuView: no key in
\* another view (ctrl+c in managePresetsView, addPresetView, editPresetView,
\* the dialogs or loadingView among them) and no message of a subprocess ends
\* the program.
C16_QuitOnlyByConfirm ==
    /\ ~quitting
    /\ [][/\ (quitting' /\ ~quitting) =>
                (state = quitConfirmView /\ last'.branch = "QuitYes")
          /\ (state' = quitConfirmView /\ state # quitConfirmView) =>
                (state = mainMenuView /\ last'.branch = "MainQuit")
          /\ last'.branch \in {"ManageListKey", "MainListKey", "InputIgnored", "IgnoredKey",
                               "streamURLMsg", "streamEndedMsg"} =>
                (~quitting' /\ (state' = quitConfirmView => state = quitConfirmView))]_vars

\* the program was quit after a visit to managePresetsView
C16_Witness ==
    /\ quitting
    /\ last.branch = "QuitYes"
    /\ state = quitConfirmView
    /\ nkeys >= 4

\* the ten default streams, as entries
DefaultEntries ==
    [j \in 1..Len(C5_Defaults) |->
        [name |-> Str(C5_Defaults[j][1]), url |-> Str(C5_Defaults[j][2])]]

\* C17: at startup, with no config file the configuration is the ten defaults
\* and no file is written; with a file that parses the configuration is the
\* file's entries, in order; with a file that cannot be read or parsed the
\* configuration is the ten defaults and saveConfig is called once with them,
\* its failure changing nothing. In every case the first view is mainMenuView
\* and the list holds the configuration's entries.
C17_Startup ==
    last.branch = "initialModel" =>
        /\ state = mainMenuView
        /\ listItems = config
        /\ disk.kind = "absent" =>
              (config = DefaultEntries /\ ~wrote /\ lastSave = "none")
        /\ (disk.kind = "file" /\ ~wrote) =>
              (config = disk.presets /\ lastSave = "none")
        /\ (disk.kind = "malformed" \/ wrote) =>
              /\ wrote
              /\ config = DefaultEntries
              /\ lastSave \in {"ok", "err"}
              /\ lastSave = "ok" <=> disk = File(DefaultEntries)

\* the file could not be parsed and the save of the defaults failed: the
\* program starts all the same, on the defaults
C17_Witness ==
    /\ last.branch = "initialModel"
    /\ disk.kind = "malformed" /\ lastSave = "err"
    /\ config = DefaultEntries
    /\ state = mainMenuView

(* ------------------- the config file as JSON text -------------------- *)

\* The text of the file is a sequence of tokens: the punctuation of JSON, "nl"
\* for a line break with its indentation, and, between two quote tokens, the
\* characters of a string literal.

\* longest name or url of the configurations that are saved and loaded below
MaxText == 2

\* characters of a name or url: a plain one, and the three that
\* json.MarshalIndent does not write as they are
CodecChars == {"a", "\"", "\\", "&"}

CodecStrings == UNION {[1..n -> CodecChars] : n \in 0..MaxText}

\* a Config value: Presets is nil, or a slice holding presets
ConfigValue(isNil, p) == [nil |-> isNil, presets |-> p]

\* the configurations saved: none (nil and empty), one entry, two entries
CodecConfigs ==
    {ConfigValue(TRUE, <<>>), ConfigValue(FALSE, <<>>)}
    \cup {ConfigValue(FALSE, <<Preset(s, t)>>) : s, t \in CodecStrings}
    \cup {ConfigValue(FALSE, <<Preset(s, t), Preset(t, s)>>) : s, t \in CodecStrings}

\* mutant of EscapeChar: every character is written as it is
EscapeCharRaw(c) == <<c>>

\* encoding/json writes a quote and a backslash behind a backslash, and an
\* ampersand as the six characters of its escape u0026
EscapeChar(c) ==
    CASE c = "\"" -> <<"\\", "\"">>
      [] c = "\\" -> <<"\\", "\\">>
      [] c = "&" -> <<"\\", "u", "0", "0", "2", "6">>
      [] OTHER -> <<c>>

RECURSIVE Escape(_)
Escape(s) == IF s = <<>> THEN <<>> ELSE EscapeChar(Head(s)) \o Escape(Tail(s))

Quote(s) == <<"\"">> \o Escape(s) \o <<"\"">>

MarshalPreset(p) ==
    <<"{", "nl">> \o Quote(Str("name")) \o <<":">> \o Quote(p.name) \o <<",", "nl">>
    \o Quote(Str("url")) \o <<":">> \o Quote(p.url) \o <<"nl", "}">>

RECURSIVE MarshalPresets(_)
MarshalPresets(p) ==
    IF Len(p) = 1 THEN <<"nl">> \o MarshalPreset(p[1])
    ELSE <<"nl">> \o MarshalPreset(p[1]) \o <<",">> \o MarshalPresets(Tail(p))

\* json.MarshalIndent(config, "", "  "): a nil slice is written as null, an
\* empty one as [], the entries in their order
MarshalIndent(c) ==
    <<"{", "nl">> \o Quote(Str("presets")) \o <<":">>
    \o (IF c.nil THEN <<"null">>
        ELSE IF c.presets = <<>> THEN <<"[", "]">>
        ELSE <<"[">> \o MarshalPresets(c.presets) \o <<"nl", "]">>)
    \o <<"nl", "}">>

\* the token at position i of text t
Tok(t, i) == IF i <= Len(t) THEN t[i] ELSE "eof"

\* the first position from i on that holds no line break
RECURSIVE Ws(_, _)
Ws(t, i) == IF Tok(t, i) = "nl" THEN Ws(t, i + 1) ELSE i

ParseError == [ok |-> FALSE, val |-> <<>>, next |-> 0]

\* the string literal whose characters start at i, decoded up to its closing
\* quote
RECURSIVE DecodeFrom(_, _, _)
DecodeFrom(t, i, acc) ==
    IF i > Len(t) THEN ParseError
    ELSE IF t[i] = "\"" THEN [ok |-> TRUE, val |-> acc, next |-> i + 1]
    ELSE IF t[i] = "\\"
         THEN IF Tok(t, i + 1) \in {"\"", "\\"}
              THEN DecodeFrom(t, i + 2, Append(acc, t[i + 1]))
              ELSE IF i + 5 <= Len(t) /\ SubSeq(t, i + 1, i + 5) = <<"u", "0", "0", "2", "6">>
                   THEN DecodeFrom(t, i + 6, Append(acc, "&"))
                   ELSE ParseError
    ELSE DecodeFrom(t, i + 1, Append(acc, t[i]))

ReadString(t, i) == IF Tok(t, i) = "\"" THEN DecodeFrom(t, i + 1, <<>>) ELSE ParseError

\* the string value of the member named key that starts at i
ReadMember(t, i, key) ==
    LET k == ReadString(t, Ws(t, i)) IN
    IF ~k.ok \/ k.val # Str(key) \/ Tok(t, k.next) # ":" THEN ParseError
    ELSE ReadString(t, Ws(t, k.next + 1))

ReadPreset(t, i) ==
    LET j == Ws(t, i) IN
    IF Tok(t, j) # "{" THEN ParseError
    ELSE LET n == ReadMember(t, j + 1, "name") IN
         IF ~n.ok \/ Tok(t, n.next) # "," THEN ParseError
         ELSE LET u == ReadMember(t, n.next + 1, "url") IN
              IF ~u.ok \/ Tok(t, Ws(t, u.next)) # "}" THEN ParseError
              ELSE [ok |-> TRUE, val |-> Preset(n.val, u.val), next |-> Ws(t, u.next) + 1]

\* the presets of an array from position i on, acc being those read so far
RECURSIVE ReadPresets(_, _, _)
ReadPresets(t, i, acc) ==
    LET p == ReadPreset(t, i) IN
    IF ~p.ok THEN ParseError
    ELSE LET k == Ws(t, p.next) IN
         IF Tok(t, k) = "," THEN ReadPresets(t, k + 1, Append(acc, p.val))
         ELSE IF Tok(t, k) = "]" THEN [ok |-> TRUE, val |-> Append(acc, p.val), next |-> k + 1]
         ELSE ParseError

\* json.Unmarshal(data, &config) on a text laid out as MarshalIndent lays it
\* out (members in the order of the struct's fields): null leaves Presets
\* nil, an array makes a slice of its entries
Unmarshal(t) ==
    LET bad == [err |-> TRUE, config |-> ConfigValue(TRUE, <<>>)]
        done(c, i) == IF Tok(t, Ws(t, i)) = "}" /\ Ws(t, Ws(t, i) + 1) = Len(t) + 1
                      THEN [err |-> FALSE, config |-> c] ELSE bad
        k == ReadString(t, Ws(t, 2))
        v == Ws(t, k.next + 1)
    IN  IF Tok(t, Ws(t, 1)) # "{" \/ Ws(t, 1) # 1 THEN bad
        ELSE IF ~k.ok \/ k.val # Str("presets") \/ Tok(t, k.next) # ":" THEN bad
        ELSE IF Tok(t, v) = "null" THEN done(ConfigValue(TRUE, <<>>), v + 1)
        ELSE IF Tok(t, v) # "[" THEN bad
        ELSE IF Tok(t, Ws(t, v + 1)) = "]" THEN done(ConfigValue(FALSE, <<>>), Ws(t, v + 1) + 1)
        ELSE LET ps == ReadPresets(t, v + 1, <<>>) IN
             IF ps.ok THEN done(ConfigValue(FALSE, ps.val), ps.next) ELSE bad

(* ---------------------- saving and loading back ---------------------- *)

\* In CodecSpec config is a Config value and disk holds the text of the file;
\* the view and the widgets are not involved.

FileText(t) == [kind |-> "file", data |-> t]

CodecInit ==
    /\ config \in CodecConfigs
    /\ disk = Absent
    /\ listItems = <<>> /\ listIndex = 0 /\ state = mainMenuView
    /\ selectedIndex = 0 /\ nameInput = <<>> /\ urlInput = <<>>
    /\ focusedInput = 0 /\ textInput = <<>>
    /\ proc = [resolver |-> <<>>, player |-> <<>>]
    /\ quitting = FALSE
    /\ last = [branch |-> "none", from |-> "none", res |-> NoResult]
    /\ wrote = FALSE /\ lastSave = "none" /\ nkeys = 0

CodecRest ==
    UNCHANGED <<listItems, listIndex, state, selectedIndex, nameInput, urlInput,
                focusedInput, textInput, proc, quitting>>

\* saveConfig(config) succeeds: the file holds the text of the configuration
CodecSave ==
    /\ last.branch \in {"none", "loadConfig"}
    /\ disk' = FileText(MarshalIndent(config))
    /\ config' = config
    /\ last' = [branch |-> "saveConfig", from |-> "none", res |-> NoResult]
    /\ wrote' = TRUE /\ lastSave' = "ok" /\ nkeys' = nkeys
    /\ CodecRest

\* loadConfig() on the file saveConfig wrote
CodecLoad ==
    /\ last.branch = "saveConfig" /\ ~last.res.err /\ nkeys = 0
    /\ LET l == Unmarshal(disk.data) IN
       /\ config' = l.config
       /\ last' = [branch |-> "loadConfig", from |-> "none",
                   res |-> [err |-> l.err, out |-> <<>>]]
    /\ wrote' = FALSE /\ nkeys' = nkeys + 1
    /\ UNCHANGED <<disk, lastSave>>
    /\ CodecRest

CodecNext == CodecSave \/ CodecLoad

CodecSpec == CodecInit /\ [][CodecNext]_vars

\* C18: for every configuration c, the empty ones included, loadConfig after
\* saveConfig(c) returns, without error, the entries of c in their order; and
\* saving what was loaded from a file that saveConfig wrote leaves the text of
\* the file as it was.
C18_RoundTrip ==
    [][/\ last'.branch = "loadConfig" =>
             /\ ~last'.res.err
             /\ config'.presets = config.presets
             /\ disk.data = MarshalIndent(config)
       /\ (last.branch = "loadConfig" /\ last'.branch = "saveConfig") =>
             disk' = disk]_vars

\* two entries whose texts need escaping were saved, loaded and saved again
C18_Witness ==
    /\ last.branch = "saveConfig" /\ nkeys = 1
    /\ Len(config.presets) = 2
    /\ config.presets[1].name = <<"\"", "\\">>
    /\ config.presets[1].url = <<"&">>

C20_FocusAndTyping ==
    [][/\ last'.branch \in {"AddTab", "EditTab"} =>
             /\ state \in {addPresetView, editPresetView}
             /\ focusedInput' = 1 - focusedInput
             /\ <<state', config', listItems', listIndex', selectedIndex', nameInput',
                  urlInput', textInput', proc', quitting', disk'>>
                   = <<state, config, listItems, listIndex, selectedIndex, nameInput,
                       urlInput, textInput, proc, quitting, disk>>
             /\ ~wrote'
       /\ focusedInput' \in {0, 1}
       /\ last'.branch \in {"InputKey", "InputIgnored"} =>
             /\ state \in {addPresetView, editPresetView}
             /\ focusedInput' = focusedInput
             /\ focusedInput = 0 => urlInput' = urlInput
             /\ focusedInput = 1 => nameInput' = nameInput
             /\ <<state', config', listItems', listIndex', selectedIndex'>>
                   = <<state, config, listItems, listIndex, selectedIndex>>]_vars

\* with the focus on the url, a character was typed: the name is as the edit
\* found it, the url has one character more
C20_Witness ==
    /\ last.branch = "InputKey"
    /\ state = editPresetView
    /\ focusedInput = 1
    /\ selectedIndex < Len(config)
    /\ nameInput = config[selectedIndex + 1].name
    /\ urlInput = Append(config[selectedIndex + 1].url, "a")

\* the four steps that carry out an add, an edit, a delete or a restore
ConfirmBranches == {"AddEnter", "EditEnter", "DeleteYes", "RestoreYes"}

\* the steps of list navigation, window size, spinner tick, typing, of the
\* keys that only change the view, and of the two subprocess messages
FrameBranches ==
    {"MainListKey", "ManageListKey", "WindowSizeMsg", "spinner.TickMsg", "CustomKey",
     "InputKey", "MainQuit", "MainCustom", "MainManage", "ManageAdd", "ManageEdit",
     "ManageDelete", "ManageRestore", "streamURLMsg", "streamEndedMsg"}

\* C21: the configuration and the file change only in a step that confirms an
\* add, an edit, a delete or a restore and calls saveConfig; list navigation,
\* window sizes, spinner ticks, typing, the keys that only change the view,
\* resolver results and the end of the player leave every entry and the file
\* as they were; the items of the list change in no other step either.
C21_OnlyConfirmsMutate ==
    [][/\ (config' # config \/ disk' # disk \/ listItems' # listItems) =>
             (last'.branch \in ConfirmBranches /\ wrote')
       /\ last'.branch \in FrameBranches =>
             /\ config' = config
             /\ listItems' = listItems
             /\ NothingWritten]_vars

\* a preset was added and saved; the window size that came next left the
\* eleven entries and the file alone
C21_Witness ==
    /\ last.branch = "WindowSizeMsg"
    /\ Len(config) = Len(getDefaultConfig) + 1
    /\ listItems = config
    /\ disk = File(config)

\* C22: whenever the view is editPresetView the remembered index is the index
\* of an entry, 0 <= selectedIndex < number of entries, so the bound check of
\* enter in that view never turns a submission down; deleteConfirmView, for
\* its part, is reached with a remembered index that is the index of no entry.
C22_EditIndexValid ==
    state = editPresetView =>
        (0 <= selectedIndex /\ selectedIndex < Len(config))

\* of two entries the first was edited, which the bound check let through, and
\* the second deleted; d then opened deleteConfirmView on index 1 of one entry
C22_Witness ==
    /\ state = deleteConfirmView
    /\ Len(config) = 1
    /\ selectedIndex >= Len(config)
    /\ config[1].name = <<"a", "a">>

\* C23: a saveConfig that fails in a step that confirms an add, an edit, a
\* delete or a restore is ignored: the configuration and the list hold the
\* change all the same and the view becomes managePresetsView, as after a save
\* that succeeds; nothing is undone and no view reports the error. The file
\* then holds other entries than the configuration, until a later save
\* succeeds.
C23_FailedSaveIgnored ==
    [][/\ (last'.branch \in ConfirmBranches /\ wrote' /\ lastSave' = "err") =>
             /\ state' = managePresetsView
             /\ listItems' = config'
             /\ disk' \in {disk, Malformed}
             /\ last'.branch = "AddEnter" =>
                   /\ Len(config') = Len(config) + 1
                   /\ SubSeq(config', 1, Len(config)) = config
                   /\ config'[Len(config')] =
                         [name |-> Trimmed(nameInput), url |-> Trimmed(urlInput)]
             /\ last'.branch = "EditEnter" =>
                   /\ Len(config') = Len(config)
                   /\ config'[selectedIndex + 1] =
                         [name |-> Trimmed(nameInput), url |-> Trimmed(urlInput)]
             /\ last'.branch = "DeleteYes" => Len(config') = Len(config) - 1
             /\ last'.branch = "RestoreYes" => config' = DefaultEntries
       /\ (wrote' /\ lastSave' = "ok") => disk' = File(config')]_vars

\* the save of an added preset failed: the configuration and the list hold
\* eleven entries, the file does not, and the view is managePresetsView
C23_Witness ==
    /\ last.branch = "AddEnter" /\ wrote /\ lastSave = "err"
    /\ state = managePresetsView
    /\ Len(config) = Len(getDefaultConfig) + 1
    /\ listItems = config
    /\ disk # File(config)

====
